---- MODULE Spec2Model ----
(***************************************************************************)
(* Tic-tac-toe: the Tk application (tiktaktoe/tiktaktoe.py) and the        *)
(* console program (tiktaktoe/consoletictactoe.py).                        *)
(*                                                                         *)
(* A board is a function 0..8 -> {" ", "X", "O"}, as the Python list of    *)
(* nine one-character strings.  Python's None is the string "None" where   *)
(* a winner is expected and NoMove where a move index is expected.         *)
(***************************************************************************)
EXTENDS Integers, Sequences, FiniteSets, TLC

VARIABLES
  board,           \* the 9 cells of the program under study
  current_player,  \* GUI: TicTacToeApp.current_player
  game_over,       \* GUI: TicTacToeApp.game_over
  config_data,     \* GUI: TicTacToeApp.config_data (mode, cpu_difficulty)
  screen,          \* GUI: which frame is gridded, "menu" or "game"
  pending,         \* GUI: number of _cpu_play callbacks scheduled with after()
  current,         \* console: play_single_game's local `current`
  vs_cpu,          \* console: play_single_game's local `vs_cpu`
  difficulty,      \* console: play_single_game's local `difficulty`
  pc,              \* console: where play()/play_single_game() stands
  sim,             \* simulated game: engine under test, side to move, flags
  ret,             \* pure-function harness: the last call and what it returned
  last             \* the last handler that ran and the path it took

vars == <<board, current_player, game_over, config_data, screen, pending,
          current, vs_cpu, difficulty, pc, sim, ret, last>>

Cells == 0..8
Marks == {"X", "O"}
CellValues == {" ", "X", "O"}
EmptyBoard == [i \in Cells |-> " "]
AllBoards == [Cells -> CellValues]

\* Python None where a move index is expected.
NoMove == -1

Other(p) == IF p = "X" THEN "O" ELSE "X"

\* random.choice(seq): any element; IndexError on an empty sequence.
RandomChoice(S) ==
  IF S = {} THEN [moves |-> {}, raised |-> "IndexError"]
  ELSE [moves |-> S, raised |-> "None"]

Returns(m) == [moves |-> {m}, raised |-> "None"]

Range(s) == {s[k] : k \in DOMAIN s}

(***************************************************************************)
(* tiktaktoe.py: game logic helpers                                        *)
(***************************************************************************)

\* The test of winner_of's loop body for one line (a, b, c).
Same3(b, p, q, r) == b[p] # " " /\ b[p] = b[q] /\ b[q] = b[r]

\* WIN_LINES as tiktaktoe.py lists it, in its order; the sixth entry is
\* (2, 4, 6), under the comment "cols", and (2, 5, 8) is not in the list.
WIN_LINES ==
  << <<0, 1, 2>>, <<3, 4, 5>>, <<6, 7, 8>>,
     <<0, 3, 6>>, <<1, 4, 7>>, <<2, 4, 6>>,
     <<0, 4, 8>>, <<2, 4, 6>> >>

\* winner_of: the for loop over WIN_LINES, unrolled in list order.
winner_of(b) ==
  IF Same3(b, 0, 1, 2) THEN b[0]
  ELSE IF Same3(b, 3, 4, 5) THEN b[3]
  ELSE IF Same3(b, 6, 7, 8) THEN b[6]
  ELSE IF Same3(b, 0, 3, 6) THEN b[0]
  ELSE IF Same3(b, 1, 4, 7) THEN b[1]
  ELSE IF Same3(b, 2, 4, 6) THEN b[2]
  ELSE IF Same3(b, 0, 4, 8) THEN b[0]
  ELSE IF Same3(b, 2, 4, 6) THEN b[2]
  ELSE "None"

is_draw(b) == winner_of(b) = "None" /\ \A i \in Cells : b[i] # " "

available_moves(b) == {i \in Cells : b[i] = " "}

\* `if score > best_score` (cpu to move) / `if score < best_score` (human).
minimax_keep(best, score, m, maximise) ==
  IF (IF maximise THEN score > best[1] ELSE score < best[1])
  THEN <<score, m>>
  ELSE best

RECURSIVE minimax(_, _, _, _)

\* One pass of `for m in moves`: cell m is skipped when it is not empty.
minimax_try(best, b, m, current_, cpu, human) ==
  IF b[m] # " " THEN best
  ELSE minimax_keep(best,
         minimax([b EXCEPT ![m] = current_], Other(current_), cpu, human)[1],
         m, current_ = cpu)

\* The loop over moves 0..8 in ascending order, starting from (best_score, None).
\* The tuple only has TLC evaluate the passes in the order the loop runs them.
minimax_loop(b, c, cpu, human, init) ==
  LET a0 == minimax_try(init, b, 0, c, cpu, human)
      a1 == minimax_try(a0, b, 1, c, cpu, human)
      a2 == minimax_try(a1, b, 2, c, cpu, human)
      a3 == minimax_try(a2, b, 3, c, cpu, human)
      a4 == minimax_try(a3, b, 4, c, cpu, human)
      a5 == minimax_try(a4, b, 5, c, cpu, human)
      a6 == minimax_try(a5, b, 6, c, cpu, human)
      a7 == minimax_try(a6, b, 7, c, cpu, human)
      a8 == minimax_try(a7, b, 8, c, cpu, human)
  IN  <<a0[1], a1[1], a2[1], a3[1], a4[1], a5[1], a6[1], a7[1], a8>>[9]

\* minimax_at scoring a win of the human as +1, like a win of the cpu.
minimax_at_sign(b, w, current_, cpu, human) ==
  IF w = cpu THEN <<1, NoMove>>
  ELSE IF w = human THEN <<1, NoMove>>
  ELSE IF is_draw(b) THEN <<0, NoMove>>
  ELSE IF current_ = cpu
       THEN minimax_loop(b, cpu, cpu, human, <<-10, NoMove>>)
       ELSE minimax_loop(b, human, cpu, human, <<10, NoMove>>)

\* The body of minimax once the winner w of the board is known.
minimax_at(b, w, current_, cpu, human) ==
  IF w = cpu THEN <<1, NoMove>>
  ELSE IF w = human THEN <<-1, NoMove>>
  ELSE IF is_draw(b) THEN <<0, NoMove>>
  ELSE IF current_ = cpu
       THEN minimax_loop(b, cpu, cpu, human, <<-10, NoMove>>)
       ELSE minimax_loop(b, human, cpu, human, <<10, NoMove>>)

\* minimax(board, current, cpu, human) -> (score, move)
minimax(b, current_, cpu, human) ==
  minimax_at(b, winner_of(b), current_, cpu, human)

RECURSIVE find_winning_move_from(_, _, _)
find_winning_move_from(b, player, m) ==
  IF m > 8 THEN NoMove
  ELSE IF b[m] = " " /\ winner_of([b EXCEPT ![m] = player]) = player THEN m
  ELSE find_winning_move_from(b, player, m + 1)

find_winning_move(b, player) == find_winning_move_from(b, player, 0)

\* s repeated n times (Python list * int).
Times(s, n) == [k \in 1..(Len(s) * n) |-> s[((k - 1) % Len(s)) + 1]]

\* `i in moves` taken as true of every cell.
IsFree_always(b, i) == TRUE

IsFree(b, i) == b[i] = " "

\* The `weighted` list of pick_cpu_move's Medium branch.
weighted_pool(b) ==
  Times(SelectSeq(<<4>>, LAMBDA i : IsFree(b, i)), 5)
  \o Times(SelectSeq(<<0, 2, 6, 8>>, LAMBDA i : IsFree(b, i)), 3)
  \o Times(SelectSeq(<<1, 3, 5, 7>>, LAMBDA i : IsFree(b, i)), 1)

\* The tail of the Medium branch: random.random() < 0.25 picks among all
\* moves, otherwise among weighted (or moves when weighted is empty).
pick_medium_fallback(b) ==
  LET noise == RandomChoice(available_moves(b))
      pool  == IF Len(weighted_pool(b)) > 0
               THEN RandomChoice(Range(weighted_pool(b)))
               ELSE RandomChoice(available_moves(b))
  IN  [moves |-> noise.moves \cup pool.moves,
       raised |-> IF noise.raised # "None" THEN noise.raised ELSE pool.raised]

pick_difficult(b, found) ==
  IF found[2] # NoMove THEN Returns(found[2])
  ELSE RandomChoice(available_moves(b))

\* pick_cpu_move(board, difficulty, cpu, human): the indices it may return,
\* or the exception it raises.
pick_cpu_move(b, diff, cpu, human) ==
  IF diff = "Easy" THEN RandomChoice(available_moves(b))
  ELSE IF diff = "Medium"
  THEN IF find_winning_move(b, cpu) # NoMove
       THEN Returns(find_winning_move(b, cpu))
       ELSE IF find_winning_move(b, human) # NoMove
       THEN Returns(find_winning_move(b, human))
       ELSE pick_medium_fallback(b)
  ELSE pick_difficult(b, minimax(b, cpu, cpu, human))

(***************************************************************************)
(* consoletictactoe.py: game logic helpers                                 *)
(***************************************************************************)

winning_lines ==
  << <<0, 1, 2>>, <<3, 4, 5>>, <<6, 7, 8>>,
     <<0, 3, 6>>, <<1, 4, 7>>, <<2, 5, 8>>,
     <<0, 4, 8>>, <<2, 4, 6>> >>

\* check_winner: the for loop over winning_lines(), unrolled in list order.
check_winner(b) ==
  IF Same3(b, 0, 1, 2) THEN b[0]
  ELSE IF Same3(b, 3, 4, 5) THEN b[3]
  ELSE IF Same3(b, 6, 7, 8) THEN b[6]
  ELSE IF Same3(b, 0, 3, 6) THEN b[0]
  ELSE IF Same3(b, 1, 4, 7) THEN b[1]
  ELSE IF Same3(b, 2, 5, 8) THEN b[2]
  ELSE IF Same3(b, 0, 4, 8) THEN b[0]
  ELSE IF Same3(b, 2, 4, 6) THEN b[2]
  ELSE "None"

\* consoletictactoe.is_draw: only that no cell is blank.
console_is_draw(b) == \A i \in Cells : b[i] # " "

_available_moves(b) == {i \in Cells : b[i] = " "}

RECURSIVE _find_winning_move_from(_, _, _)
_find_winning_move_from(b, symbol, idx) ==
  IF idx > 8 THEN NoMove
  ELSE IF b[idx] = " " /\ check_winner([b EXCEPT ![idx] = symbol]) = symbol THEN idx
  ELSE _find_winning_move_from(b, symbol, idx + 1)

_find_winning_move(b, symbol) == _find_winning_move_from(b, symbol, 0)

\* _cpu_move_easy without its `if not available: raise RuntimeError`.
_cpu_move_easy_unguarded(b) == RandomChoice(_available_moves(b))

_cpu_move_easy(b) ==
  IF _available_moves(b) = {}
  THEN [moves |-> {}, raised |-> "RuntimeError"]
  ELSE RandomChoice(_available_moves(b))

_cpu_move_medium(b, cpu_symbol, human_symbol) ==
  IF _find_winning_move(b, cpu_symbol) # NoMove
  THEN Returns(_find_winning_move(b, cpu_symbol))
  ELSE IF _find_winning_move(b, human_symbol) # NoMove
  THEN Returns(_find_winning_move(b, human_symbol))
  ELSE _cpu_move_easy(b)

RECURSIVE _minimax(_, _, _, _)

_minimax_try(best, b, idx, current_, cpu_symbol, human_symbol) ==
  IF b[idx] # " " THEN best
  ELSE minimax_keep(best,
         _minimax([b EXCEPT ![idx] = current_], Other(current_),
                  cpu_symbol, human_symbol)[1],
         idx, current_ = cpu_symbol)

_minimax_loop(b, c, cpu, human, init) ==
  LET a0 == _minimax_try(init, b, 0, c, cpu, human)
      a1 == _minimax_try(a0, b, 1, c, cpu, human)
      a2 == _minimax_try(a1, b, 2, c, cpu, human)
      a3 == _minimax_try(a2, b, 3, c, cpu, human)
      a4 == _minimax_try(a3, b, 4, c, cpu, human)
      a5 == _minimax_try(a4, b, 5, c, cpu, human)
      a6 == _minimax_try(a5, b, 6, c, cpu, human)
      a7 == _minimax_try(a6, b, 7, c, cpu, human)
      a8 == _minimax_try(a7, b, 8, c, cpu, human)
  IN  <<a0[1], a1[1], a2[1], a3[1], a4[1], a5[1], a6[1], a7[1], a8>>[9]

_minimax_at(b, winner, current_, cpu_symbol, human_symbol) ==
  IF winner = cpu_symbol THEN <<1, NoMove>>
  ELSE IF winner = human_symbol THEN <<-1, NoMove>>
  ELSE IF console_is_draw(b) THEN <<0, NoMove>>
  ELSE IF current_ = cpu_symbol
       THEN _minimax_loop(b, cpu_symbol, cpu_symbol, human_symbol, <<-999, NoMove>>)
       ELSE _minimax_loop(b, human_symbol, cpu_symbol, human_symbol, <<999, NoMove>>)

_minimax(b, current_, cpu_symbol, human_symbol) ==
  _minimax_at(b, check_winner(b), current_, cpu_symbol, human_symbol)

_cpu_move_hard_pick(b, found) ==
  IF found[2] = NoMove THEN _cpu_move_easy(b) ELSE Returns(found[2])

_cpu_move_hard(b, cpu_symbol, human_symbol) ==
  _cpu_move_hard_pick(b, _minimax(b, cpu_symbol, cpu_symbol, human_symbol))

cpu_move(b, diff, cpu_symbol, human_symbol) ==
  IF diff = "easy" THEN _cpu_move_easy(b)
  ELSE IF diff = "medium" THEN _cpu_move_medium(b, cpu_symbol, human_symbol)
  ELSE _cpu_move_hard(b, cpu_symbol, human_symbol)

(***************************************************************************)
(* The same helpers with their assignments to the caller's list: a call    *)
(* returns its value together with the list as the call leaves it.         *)
(***************************************************************************)

Max(x, y) == IF x >= y THEN x ELSE y

\* Number of blank cells, len(available_moves(board)).
Blanks(b) == Cardinality({i \in Cells : b[i] = " "})

\* `board[m] = cpu` / `board[idx] = symbol`: the speculative assignment.
place(b, m, symbol) == [b EXCEPT ![m] = symbol]

\* find_winning_move leaving the speculative mark on the board.
unplace_scan_skipped(b, m) == b

\* `board[m] = " "` in find_winning_move and _find_winning_move.
unplace_scan(b, m) == [b EXCEPT ![m] = " "]

\* minimax leaving the speculative mark on the board.
unplace_search_skipped(b, m) == b

\* `board[m] = " "` in minimax and _minimax.
unplace_search(b, m) == [b EXCEPT ![m] = " "]

\* find_winning_move over the cells m.. that were blank on entry (b0); b is
\* the list as the loop has left it so far.  Returns <<move, list>>.
RECURSIVE find_winning_move_inplace_from(_, _, _, _)
find_winning_move_inplace_from(b0, b, player, m) ==
  IF m > 8 THEN <<NoMove, b>>
  ELSE IF b0[m] # " " THEN find_winning_move_inplace_from(b0, b, player, m + 1)
  ELSE IF winner_of(place(b, m, player)) = player
       THEN <<m, unplace_scan(place(b, m, player), m)>>
       ELSE find_winning_move_inplace_from(
              b0, unplace_scan(place(b, m, player), m), player, m + 1)

find_winning_move_inplace(b, player) ==
  find_winning_move_inplace_from(b, b, player, 0)

\* A search result: <<score, move, list on return, deepest nested call,
\* every nested call was entered with one blank cell fewer than its caller>>.
RECURSIVE minimax_inplace(_, _, _, _)

\* One pass of `for m in moves`, moves being the blank cells of b0.
minimax_inplace_try(acc, b0, m, current_, cpu, human) ==
  IF b0[m] # " " THEN acc
  ELSE LET entered == place(acc[3], m, current_)
           r == minimax_inplace(entered, Other(current_), cpu, human)
           kept == minimax_keep(<<acc[1], acc[2]>>, r[1], m, current_ = cpu)
       IN  <<kept[1], kept[2], unplace_search(r[3], m),
             Max(acc[4], r[4] + 1),
             acc[5] /\ r[5] /\ Blanks(entered) = Blanks(b0) - 1>>

\* The loop over moves 0..8 in ascending order, evaluated pass by pass.
minimax_inplace_loop(b, c, cpu, human, init) ==
  LET a0 == minimax_inplace_try(init, b, 0, c, cpu, human)
      a1 == minimax_inplace_try(a0, b, 1, c, cpu, human)
      a2 == minimax_inplace_try(a1, b, 2, c, cpu, human)
      a3 == minimax_inplace_try(a2, b, 3, c, cpu, human)
      a4 == minimax_inplace_try(a3, b, 4, c, cpu, human)
      a5 == minimax_inplace_try(a4, b, 5, c, cpu, human)
      a6 == minimax_inplace_try(a5, b, 6, c, cpu, human)
      a7 == minimax_inplace_try(a6, b, 7, c, cpu, human)
      a8 == minimax_inplace_try(a7, b, 8, c, cpu, human)
  IN  <<a0[4], a1[4], a2[4], a3[4], a4[4], a5[4], a6[4], a7[4], a8>>[9]

minimax_inplace_at(b, w, current_, cpu, human) ==
  IF w = cpu THEN <<1, NoMove, b, 0, TRUE>>
  ELSE IF w = human THEN <<-1, NoMove, b, 0, TRUE>>
  ELSE IF is_draw(b) THEN <<0, NoMove, b, 0, TRUE>>
  ELSE IF current_ = cpu
       THEN minimax_inplace_loop(b, cpu, cpu, human, <<-10, NoMove, b, 0, TRUE>>)
       ELSE minimax_inplace_loop(b, human, cpu, human, <<10, NoMove, b, 0, TRUE>>)

minimax_inplace(b, current_, cpu, human) ==
  minimax_inplace_at(b, winner_of(b), current_, cpu, human)

\* What a call of a move chooser leaves behind: the indices it may return or
\* the exception it raises, the list on return, and the search's result.
Outcome(choice, b, search) ==
  [moves |-> choice.moves, raised |-> choice.raised, board |-> b,
   score |-> search[1], depth |-> search[4], shrinks |-> search[5]]

NoSearch == <<0, NoMove, EmptyBoard, 0, TRUE>>

\* pick_cpu_move with the list threaded through find_winning_move(cpu),
\* find_winning_move(human) and minimax.
pick_cpu_move_inplace(b, diff, cpu, human) ==
  IF diff = "Easy" THEN Outcome(RandomChoice(available_moves(b)), b, NoSearch)
  ELSE IF diff = "Medium"
  THEN LET win == find_winning_move_inplace(b, cpu)
           block == find_winning_move_inplace(win[2], human)
       IN  IF win[1] # NoMove THEN Outcome(Returns(win[1]), win[2], NoSearch)
           ELSE IF block[1] # NoMove
           THEN Outcome(Returns(block[1]), block[2], NoSearch)
           ELSE Outcome(pick_medium_fallback(b), block[2], NoSearch)
  ELSE LET found == minimax_inplace(b, cpu, cpu, human)
       IN  Outcome(pick_difficult(b, found), found[3], found)

\* _find_winning_move over the cells idx.. that were blank on entry (b0).
RECURSIVE _find_winning_move_inplace_from(_, _, _, _)
_find_winning_move_inplace_from(b0, b, symbol, idx) ==
  IF idx > 8 THEN <<NoMove, b>>
  ELSE IF b0[idx] # " " THEN _find_winning_move_inplace_from(b0, b, symbol, idx + 1)
  ELSE IF check_winner(place(b, idx, symbol)) = symbol
       THEN <<idx, unplace_scan(place(b, idx, symbol), idx)>>
       ELSE _find_winning_move_inplace_from(
              b0, unplace_scan(place(b, idx, symbol), idx), symbol, idx + 1)

_find_winning_move_inplace(b, symbol) ==
  _find_winning_move_inplace_from(b, b, symbol, 0)

RECURSIVE _minimax_inplace(_, _, _, _)

_minimax_inplace_try(acc, b0, idx, current_, cpu_symbol, human_symbol) ==
  IF b0[idx] # " " THEN acc
  ELSE LET entered == place(acc[3], idx, current_)
           r == _minimax_inplace(entered, Other(current_), cpu_symbol, human_symbol)
           kept == minimax_keep(<<acc[1], acc[2]>>, r[1], idx, current_ = cpu_symbol)
       IN  <<kept[1], kept[2], unplace_search(r[3], idx),
             Max(acc[4], r[4] + 1),
             acc[5] /\ r[5] /\ Blanks(entered) = Blanks(b0) - 1>>

_minimax_inplace_loop(b, c, cpu, human, init) ==
  LET a0 == _minimax_inplace_try(init, b, 0, c, cpu, human)
      a1 == _minimax_inplace_try(a0, b, 1, c, cpu, human)
      a2 == _minimax_inplace_try(a1, b, 2, c, cpu, human)
      a3 == _minimax_inplace_try(a2, b, 3, c, cpu, human)
      a4 == _minimax_inplace_try(a3, b, 4, c, cpu, human)
      a5 == _minimax_inplace_try(a4, b, 5, c, cpu, human)
      a6 == _minimax_inplace_try(a5, b, 6, c, cpu, human)
      a7 == _minimax_inplace_try(a6, b, 7, c, cpu, human)
      a8 == _minimax_inplace_try(a7, b, 8, c, cpu, human)
  IN  <<a0[4], a1[4], a2[4], a3[4], a4[4], a5[4], a6[4], a7[4], a8>>[9]

_minimax_inplace_at(b, winner, current_, cpu_symbol, human_symbol) ==
  IF winner = cpu_symbol THEN <<1, NoMove, b, 0, TRUE>>
  ELSE IF winner = human_symbol THEN <<-1, NoMove, b, 0, TRUE>>
  ELSE IF console_is_draw(b) THEN <<0, NoMove, b, 0, TRUE>>
  ELSE IF current_ = cpu_symbol
       THEN _minimax_inplace_loop(b, cpu_symbol, cpu_symbol, human_symbol,
                                  <<-999, NoMove, b, 0, TRUE>>)
       ELSE _minimax_inplace_loop(b, human_symbol, cpu_symbol, human_symbol,
                                  <<999, NoMove, b, 0, TRUE>>)

_minimax_inplace(b, current_, cpu_symbol, human_symbol) ==
  _minimax_inplace_at(b, check_winner(b), current_, cpu_symbol, human_symbol)

\* cpu_move with the list threaded through _find_winning_move and _minimax.
\* _cpu_move_easy reads the list as the earlier calls have left it.
cpu_move_inplace(b, diff, cpu_symbol, human_symbol) ==
  IF diff = "easy" THEN Outcome(_cpu_move_easy(b), b, NoSearch)
  ELSE IF diff = "medium"
  THEN LET win == _find_winning_move_inplace(b, cpu_symbol)
           block == _find_winning_move_inplace(win[2], human_symbol)
       IN  IF win[1] # NoMove THEN Outcome(Returns(win[1]), win[2], NoSearch)
           ELSE IF block[1] # NoMove
           THEN Outcome(Returns(block[1]), block[2], NoSearch)
           ELSE Outcome(_cpu_move_easy(block[2]), block[2], NoSearch)
  ELSE LET found == _minimax_inplace(b, cpu_symbol, cpu_symbol, human_symbol)
       IN  Outcome(_cpu_move_hard_pick(found[3], found), found[3], found)

(***************************************************************************)
(* The outcome after a move, as each program computes it                   *)
(***************************************************************************)

\* TicTacToeApp._check_end_and_handle: winner first, then is_draw.
outcome_gui(b) ==
  IF winner_of(b) # "None" THEN [kind |-> "Win", who |-> winner_of(b)]
  ELSE IF is_draw(b) THEN [kind |-> "Draw", who |-> "None"]
  ELSE [kind |-> "Ongoing", who |-> "None"]

\* play_single_game: `if winner: ... break`, then `if is_draw(board): ... break`.
outcome_console(b) ==
  IF check_winner(b) # "None" THEN [kind |-> "Win", who |-> check_winner(b)]
  ELSE IF console_is_draw(b) THEN [kind |-> "Draw", who |-> "None"]
  ELSE [kind |-> "Ongoing", who |-> "None"]

(***************************************************************************)
(* Bounds                                                                  *)
(***************************************************************************)

\* At most this many _cpu_play callbacks are scheduled and not yet run.
MaxPending == 1

(***************************************************************************)
(* Initial values                                                          *)
(***************************************************************************)

NoConfig == [mode |-> "None", cpu_difficulty |-> "Easy"]
NoCall == [fn |-> "off", arg |-> "None", gui |-> NoMove, console |-> NoMove]
NoSim == [impl |-> "none", turn |-> "X", over |-> TRUE, optX |-> FALSE, optO |-> FALSE]
NoOp == [op |-> "init", path |-> "init"]

\* The Tk application is not running.
GuiOff ==
  /\ current_player = "X" /\ game_over = FALSE /\ config_data = NoConfig
  /\ screen = "none" /\ pending = 0

\* The console program is not running.
ConsoleOff ==
  /\ current = "X" /\ vs_cpu = FALSE /\ difficulty = "easy" /\ pc = "off"

guiVars == <<current_player, game_over, config_data, screen, pending>>
consoleVars == <<current, vs_cpu, difficulty, pc>>

(***************************************************************************)
(* tiktaktoe.py: TicTacToeApp                                              *)
(***************************************************************************)

\* TicTacToeApp.__init__: empty board, X to move, no configuration, the menu shown.
InitGui ==
  /\ board = EmptyBoard
  /\ current_player = "X" /\ game_over = FALSE /\ config_data = NoConfig
  /\ screen = "menu" /\ pending = 0
  /\ ConsoleOff /\ sim = NoSim /\ ret = NoCall /\ last = NoOp

\* reset_game's assignments.
ResetFields ==
  /\ board' = EmptyBoard
  /\ current_player' = "X"
  /\ game_over' = FALSE

\* Reset button -> reset_game.  Scheduled callbacks are not cancelled.
reset_game ==
  /\ screen = "game"
  /\ ResetFields
  /\ last' = [op |-> "reset_game", path |-> "reset"]
  /\ UNCHANGED <<config_data, screen, pending>>
  /\ UNCHANGED <<consoleVars, sim, ret>>

\* Back to Menu button -> back_to_menu -> _show_menu -> reset_game.
back_to_menu ==
  /\ screen = "game"
  /\ screen' = "menu"
  /\ ResetFields
  /\ last' = [op |-> "back_to_menu", path |-> "reset"]
  /\ UNCHANGED <<config_data, pending>>
  /\ UNCHANGED <<consoleVars, sim, ret>>

\* Menu button -> start_pvp.
start_pvp ==
  /\ screen = "menu"
  /\ config_data' = [mode |-> "PVP", cpu_difficulty |-> "Easy"]
  /\ ResetFields
  /\ screen' = "game"
  /\ last' = [op |-> "start_pvp", path |-> "reset"]
  /\ UNCHANGED pending
  /\ UNCHANGED <<consoleVars, sim, ret>>

\* Menu button -> start_cpu; diff is the value of the difficulty menu.
start_cpu(diff) ==
  /\ screen = "menu"
  /\ config_data' = [mode |-> "CPU", cpu_difficulty |-> diff]
  /\ ResetFields
  /\ screen' = "game"
  /\ last' = [op |-> "start_cpu", path |-> "reset"]
  /\ UNCHANGED pending
  /\ UNCHANGED <<consoleVars, sim, ret>>

\* _check_end_and_handle's return value (and the value game_over takes).
check_end(b) == winner_of(b) # "None" \/ is_draw(b)

\* A handler that returns, or raises, before it changes anything.
GuiNoEffect(op, path) ==
  /\ last' = [op |-> op, path |-> path]
  /\ UNCHANGED <<board, current_player, game_over>>

\* _place_move(idx, symbol) followed by _check_end_and_handle().
place_and_check(idx, symbol, op) ==
  /\ board' = [board EXCEPT ![idx] = symbol]
  /\ current_player' = Other(symbol)
  /\ game_over' = check_end(board')
  /\ last' = [op |-> op, path |-> "placed"]

\* click_guard without the game_over test.
click_guard_no_over(over, occupied) ==
  IF occupied THEN "return_occupied" ELSE "place"

\* click_guard without the occupied-cell test.
click_guard_no_occupied(over, occupied) ==
  IF over THEN "return_game_over" ELSE "place"

\* on_cell_clicked's two early returns, in their order: `if self.game_over:
\* return`, then `if self.board[idx] != " ": return`.
click_guard(over, occupied) ==
  IF over THEN "return_game_over"
  ELSE IF occupied THEN "return_occupied"
  ELSE "place"

\* on_cell_clicked(idx): the command of cell button idx.  The handler is taken
\* as callable for every idx while the game frame is shown; the buttons'
\* disabled state is the caller-side filter in front of its two guards.
on_cell_clicked(idx) ==
  /\ screen = "game"
  /\ IF click_guard(game_over, board[idx] # " ") # "place"
     THEN /\ GuiNoEffect("on_cell_clicked", click_guard(game_over, board[idx] # " "))
          /\ UNCHANGED pending
     ELSE /\ place_and_check(idx, current_player, "on_cell_clicked")
          /\ IF /\ ~game_over'
                /\ config_data.mode = "CPU"
                /\ current_player' = "O"
             THEN pending < MaxPending /\ pending' = pending + 1
             ELSE UNCHANGED pending
  /\ UNCHANGED <<config_data, screen>>
  /\ UNCHANGED <<consoleVars, sim, ret>>

\* _cpu_play("O", "X"): a callback scheduled by after(150, ...) runs.
_cpu_play ==
  /\ pending > 0
  /\ pending' = pending - 1
  /\ IF game_over
     THEN GuiNoEffect("_cpu_play", "return_game_over")
     ELSE \E r \in {pick_cpu_move(board, config_data.cpu_difficulty, "O", "X")} :
            IF r.raised # "None"
            THEN GuiNoEffect("_cpu_play", r.raised)
            ELSE \E move \in r.moves : place_and_check(move, "O", "_cpu_play")
  /\ UNCHANGED <<config_data, screen>>
  /\ UNCHANGED <<consoleVars, sim, ret>>

NextGui ==
  \/ reset_game
  \/ back_to_menu
  \/ start_pvp
  \/ \E diff \in {"Easy", "Medium", "Difficult"} : start_cpu(diff)
  \/ \E idx \in Cells : on_cell_clicked(idx)
  \/ _cpu_play

SpecGui == InitGui /\ [][NextGui]_vars

(***************************************************************************)
(* consoletictactoe.py: play / play_single_game                            *)
(***************************************************************************)

\* play() has printed its banner and calls play_single_game().
InitConsole ==
  /\ board = EmptyBoard
  /\ current = "X" /\ vs_cpu = FALSE /\ difficulty = "easy"
  /\ pc = "prompt_mode"
  /\ GuiOff /\ sim = NoSim /\ ret = NoCall /\ last = NoOp

\* play_single_game up to its loop: prompt_mode, the locals, prompt_difficulty.
start_single_game(mode, diff) ==
  /\ pc = "prompt_mode"
  /\ board' = EmptyBoard
  /\ current' = "X"
  /\ vs_cpu' = (mode = "cpu")
  /\ difficulty' = IF mode = "cpu" THEN diff ELSE "easy"
  /\ pc' = "loop"
  /\ last' = [op |-> "play_single_game", path |-> "reset"]
  /\ UNCHANGED <<guiVars, sim, ret>>

\* 'q' at any prompt: GameQuit (or the replay prompt's return) ends play().
quit ==
  /\ pc \in {"prompt_mode", "replay"} \/ (pc = "loop" /\ ~(vs_cpu /\ current = "O"))
  /\ pc' = "quit"
  /\ last' = [op |-> "quit", path |-> "GameQuit"]
  /\ UNCHANGED <<board, current, vs_cpu, difficulty, guiVars, sim, ret>>

\* The loop body after `move` is known: board[move] = current, then the
\* winner test, the draw test, and the switch of `current`.
console_place(move, op) ==
  /\ board' = [board EXCEPT ![move] = current]
  /\ IF check_winner(board') # "None" \/ console_is_draw(board')
     THEN pc' = "replay" /\ UNCHANGED current
     ELSE pc' = "loop" /\ current' = Other(current)
  /\ last' = [op |-> op, path |-> "placed"]

\* A human turn: prompt_move reads pos; a pos outside 1..9 or a taken cell
\* prints a message and prompts again, anything else is the move.
prompt_move(pos) ==
  /\ pc = "loop"
  /\ ~(vs_cpu /\ current = "O")
  /\ IF ~(1 <= pos /\ pos <= 9)
     THEN /\ last' = [op |-> "prompt_move", path |-> "out_of_range"]
          /\ UNCHANGED <<board, current, pc>>
     ELSE IF board[pos - 1] # " "
     THEN /\ last' = [op |-> "prompt_move", path |-> "taken"]
          /\ UNCHANGED <<board, current, pc>>
     ELSE console_place(pos - 1, "prompt_move")
  /\ UNCHANGED <<vs_cpu, difficulty, guiVars, sim, ret>>

\* A CPU turn: cpu_move chooses; an exception leaves play() altogether.
console_cpu_turn ==
  /\ pc = "loop"
  /\ vs_cpu /\ current = "O"
  /\ \E r \in {cpu_move(board, difficulty, "O", "X")} :
       IF r.raised # "None"
       THEN /\ pc' = "crashed"
            /\ last' = [op |-> "cpu_move", path |-> r.raised]
            /\ UNCHANGED <<board, current>>
       ELSE \E move \in r.moves : console_place(move, "cpu_move")
  /\ UNCHANGED <<vs_cpu, difficulty, guiVars, sim, ret>>

\* play(): "Play again?" answered with anything but q.
play_again ==
  /\ pc = "replay"
  /\ pc' = "prompt_mode"
  /\ last' = [op |-> "play", path |-> "again"]
  /\ UNCHANGED <<board, current, vs_cpu, difficulty, guiVars, sim, ret>>

NextConsole ==
  \/ \E mode \in {"pvp", "cpu"}, diff \in {"easy", "medium", "hard"} :
       start_single_game(mode, diff)
  \/ \E pos \in 0..10 : prompt_move(pos)
  \/ console_cpu_turn
  \/ play_again
  \/ quit

SpecConsole == InitConsole /\ [][NextConsole]_vars

(***************************************************************************)
(* Simulated games: a side plays every move with the hardest tier of one   *)
(* program, or plays any legal move.  sim.optX (sim.optO) holds while      *)
(* every move X (O) has made was the engine's choice.                      *)
(***************************************************************************)

InitSim ==
  /\ board = EmptyBoard
  /\ \E impl \in {"gui", "console"} :
       sim = [impl |-> impl, turn |-> "X", over |-> FALSE,
              optX |-> TRUE, optO |-> TRUE]
  /\ GuiOff /\ ConsoleOff /\ ret = NoCall /\ last = NoOp

\* The hardest tier of the program under test, for `me` against `other`.
engine_move(impl, b, me, other) ==
  IF impl = "gui" THEN pick_cpu_move(b, "Difficult", me, other)
  ELSE cpu_move(b, "hard", me, other)

\* Whether the program under test ends the round on board b.
engine_ends(impl, b) ==
  IF impl = "gui" THEN outcome_gui(b).kind # "Ongoing"
  ELSE outcome_console(b).kind # "Ongoing"

sim_place(m, stillOptimal) ==
  /\ board' = [board EXCEPT ![m] = sim.turn]
  /\ sim' = [sim EXCEPT
               !.turn = Other(sim.turn),
               !.over = engine_ends(sim.impl, board'),
               !.optX = IF sim.turn = "X" THEN sim.optX /\ stillOptimal ELSE sim.optX,
               !.optO = IF sim.turn = "O" THEN sim.optO /\ stillOptimal ELSE sim.optO]
  /\ UNCHANGED <<guiVars, consoleVars, ret, last>>

\* The side to move asks the engine and plays what it returns.
sim_engine_move ==
  /\ ~sim.over
  /\ sim.impl # "none"
  /\ IF sim.turn = "X" THEN sim.optX ELSE sim.optO
  /\ \E r \in {engine_move(sim.impl, board, sim.turn, Other(sim.turn))} :
       /\ r.raised = "None"
       /\ \E m \in r.moves : sim_place(m, TRUE)

\* The side to move plays any legal move.
sim_any_move(m) ==
  /\ ~sim.over
  /\ sim.impl # "none"
  /\ board[m] = " "
  /\ sim_place(m, FALSE)

NextSim ==
  \/ sim_engine_move
  \/ \E m \in Cells : sim_any_move(m)

SpecSim == InitSim /\ [][NextSim]_vars

(***************************************************************************)
(* The helpers applied to every board                                      *)
(***************************************************************************)

InitFn ==
  /\ board \in AllBoards
  /\ ret = [fn |-> "none", arg |-> "None", gui |-> NoMove, console |-> NoMove]
  /\ GuiOff /\ ConsoleOff /\ sim = NoSim /\ last = NoOp

\* The round-over test of both programs on the board.
call_evaluate ==
  /\ ret.fn # "off"
  /\ ret' = [fn |-> "evaluate", arg |-> "None",
             gui |-> outcome_gui(board), console |-> outcome_console(board)]
  /\ UNCHANGED <<board, guiVars, consoleVars, sim, last>>

\* find_winning_move / _find_winning_move for player p.
call_find_winning_move(p) ==
  /\ ret.fn # "off"
  /\ ret' = [fn |-> "find_winning_move", arg |-> p,
             gui |-> find_winning_move(board, p),
             console |-> _find_winning_move(board, p)]
  /\ UNCHANGED <<board, guiVars, consoleVars, sim, last>>

\* The middle tier of both programs, the CPU playing p.
call_medium(p) ==
  /\ ret.fn # "off"
  /\ ret' = [fn |-> "medium", arg |-> p,
             gui |-> pick_cpu_move(board, "Medium", p, Other(p)),
             console |-> cpu_move(board, "medium", p, Other(p))]
  /\ UNCHANGED <<board, guiVars, consoleVars, sim, last>>

\* available_moves(board) as the list it is, in ascending order.
moves_list(b) == SelectSeq(<<0, 1, 2, 3, 4, 5, 6, 7, 8>>, LAMBDA i : IsFree(b, i))

\* The list handed to random.choice at the end of pick_cpu_move's Medium
\* branch: moves when noise (random.random() < 0.25), else
\* `weighted if weighted else moves`.
medium_pool(b, noise) ==
  IF noise THEN moves_list(b)
  ELSE IF Len(weighted_pool(b)) > 0 THEN weighted_pool(b) ELSE moves_list(b)

\* The list handed to random.choice by _cpu_move_easy, step 3 of
\* _cpu_move_medium.
_cpu_move_medium_pool(b) == moves_list(b)

\* The middle tier of both programs for the CPU playing p: whether the call
\* gets to its random choice, and the list the choice is drawn from.
call_medium_fallback(p, noise) ==
  /\ ret.fn # "off"
  /\ ret' = [fn |-> "fallback", arg |-> [cpu |-> p, noise |-> noise],
             gui |-> [reached |-> /\ find_winning_move(board, p) = NoMove
                                  /\ find_winning_move(board, Other(p)) = NoMove,
                      pool |-> medium_pool(board, noise)],
             console |-> [reached |-> /\ _find_winning_move(board, p) = NoMove
                                      /\ _find_winning_move(board, Other(p)) = NoMove,
                          pool |-> _cpu_move_medium_pool(board)]]
  /\ UNCHANGED <<board, guiVars, consoleVars, sim, last>>

NextFn ==
  \/ call_evaluate
  \/ \E p \in Marks : call_find_winning_move(p)
  \/ \E p \in Marks : call_medium(p)
  \/ \E p \in Marks, noise \in BOOLEAN : call_medium_fallback(p, noise)

SpecFn == InitFn /\ [][NextFn]_vars

(***************************************************************************)
(* The move choosers called on the boards of alternating play              *)
(***************************************************************************)

\* X moves first and the marks alternate.
to_move(b) == IF Blanks(b) % 2 = 1 THEN "X" ELSE "O"

\* The tiers by their names in the two programs.
Tiers == {<<"Easy", "easy">>, <<"Medium", "medium">>, <<"Difficult", "hard">>}

InitSelect ==
  /\ board = EmptyBoard
  /\ ret = [fn |-> "ready", arg |-> "None", gui |-> NoMove, console |-> NoMove]
  /\ GuiOff /\ ConsoleOff /\ sim = NoSim /\ last = NoOp

\* The side to move marks a blank cell.
select_play(m) ==
  /\ ret.fn = "ready"
  /\ board[m] = " "
  /\ board' = place(board, m, to_move(board))
  /\ UNCHANGED <<guiVars, consoleVars, sim, ret, last>>

\* pick_cpu_move / cpu_move called on the board for the CPU playing cpu; the
\* hardest tier is called for the side to move, as the two programs call it.
call_select(tier, cpu) ==
  /\ ret.fn = "ready"
  /\ tier[1] = "Difficult" => cpu = to_move(board)
  /\ ret' = [fn |-> "select", arg |-> [tier |-> tier[1], cpu |-> cpu],
             gui |-> pick_cpu_move_inplace(board, tier[1], cpu, Other(cpu)),
             console |-> cpu_move_inplace(board, tier[2], cpu, Other(cpu))]
  /\ UNCHANGED <<board, guiVars, consoleVars, sim, last>>

\* winner_of / check_winner called on the board.
call_winner ==
  /\ ret.fn = "ready"
  /\ ret' = [fn |-> "winner", arg |-> "None",
             gui |-> winner_of(board), console |-> check_winner(board)]
  /\ UNCHANGED <<board, guiVars, consoleVars, sim, last>>

NextSelect ==
  \/ \E m \in Cells : select_play(m)
  \/ \E tier \in Tiers, cpu \in Marks : call_select(tier, cpu)
  \/ call_winner

SpecSelect == InitSelect /\ [][NextSelect]_vars

\* Both programs, one of them running.
SpecApps == (InitGui \/ InitConsole) /\ [][NextGui \/ NextConsole]_vars

(***************************************************************************)
(* Vocabulary of the properties                                            *)
(***************************************************************************)

\* The 8 lines of the 3x3 grid: 3 rows, 3 columns, 2 diagonals.
Rows == {{3 * r, 3 * r + 1, 3 * r + 2} : r \in 0..2}
Columns == {{c, c + 3, c + 6} : c \in 0..2}
Diagonals == {{0, 4, 8}, {2, 4, 6}}
Lines == Rows \cup Columns \cup Diagonals

ThreeInRow(b, p) == \E l \in Lines : \A i \in l : b[i] = p
AnyThreeInRow(b) == \E p \in Marks : ThreeInRow(b, p)
IsFull(b) == \A i \in Cells : b[i] # " "
Count(b, p) == Cardinality({i \in Cells : b[i] = p})

\* A handler path that is an exception leaving the handler.
IsError(path) ==
  path \in {"IndexError", "RuntimeError", "SessionOver", "IllegalMove", "NoLegalMove"}


(***************************************************************************)
(* Properties                                                              *)
(***************************************************************************)

\* C1: in a simulated game from the empty board, while every move of a side
\* was the hardest tier's choice, the other side has no three marks on a row,
\* column or diagonal (the side that plays Optimal never loses).
C1_OptimalNeverLoses ==
  sim.impl # "none" =>
    /\ sim.optX => ~ThreeInRow(board, "O")
    /\ sim.optO => ~ThreeInRow(board, "X")

\* C2: a simulated game from the empty board in which both sides play every
\* move with the hardest tier is a draw when the program ends it (the board
\* is full, no side has three in a row, and the program reports a draw), and
\* before that the engine returns a legal move for the side to play.
C2_BothOptimalDraw ==
  (sim.impl # "none" /\ sim.optX /\ sim.optO) =>
    IF sim.over
    THEN /\ IsFull(board)
         /\ ~AnyThreeInRow(board)
         /\ (sim.impl = "gui" => outcome_gui(board).kind = "Draw")
         /\ (sim.impl = "console" => outcome_console(board).kind = "Draw")
    ELSE \E r \in {engine_move(sim.impl, board, sim.turn, Other(sim.turn))} :
           r.raised = "None" /\ r.moves # {} /\ r.moves \subseteq available_moves(board)

\* C2 witness: a game both sides played with the GUI's hardest tier has ended.
C2_Witness ==
  sim.impl = "gui" /\ sim.optX /\ sim.optO /\ sim.over /\ IsFull(board)

\* C3: for every board, the round-over test reports a win of a player who
\* holds a whole row, column or diagonal whenever some player does, and
\* reports no win when no player does.
C3_EvaluateWin ==
  ret.fn = "evaluate" =>
    \A o \in {ret.gui, ret.console} :
      /\ AnyThreeInRow(board) => (o.kind = "Win" /\ ThreeInRow(board, o.who))
      /\ ~AnyThreeInRow(board) => o.kind # "Win"

\* C4: in every state of a running program the number of X marks minus the
\* number of O marks on the board is 0 or 1.
C4_MarkBalance ==
  (screen # "none" \/ pc # "off") =>
    Count(board, "X") - Count(board, "O") \in {0, 1}

\* C5 as claimed: once the round is over, a click or a CPU callback fails with
\* an error and leaves the board unchanged.
C5_FailsWithSessionOver ==
  [][(game_over /\ last'.op \in {"on_cell_clicked", "_cpu_play"}) =>
       (IsError(last'.path) /\ board' = board)]_vars

\* C5 as amended: once game_over is set, a click or a CPU callback returns at
\* its game_over test without raising, and leaves the board, the player to
\* move and game_over as they were.
C5_IgnoredAfterGameOver ==
  [][(game_over /\ last'.op \in {"on_cell_clicked", "_cpu_play"}) =>
       /\ last'.path = "return_game_over"
       /\ board' = board
       /\ current_player' = current_player
       /\ game_over']_vars

\* C5 witness: a handler has returned at its game_over test.
C5_Witness ==
  game_over /\ last.path = "return_game_over"

\* C6: after every placed mark, the round is over if the board has three in a
\* row for some player, or else if the board is full; otherwise the round goes
\* on and the player to move is the other player than before the move.
C6_OutcomeAfterMove ==
  [][(last'.path = "placed" /\ last'.op \in {"on_cell_clicked", "_cpu_play"}) =>
       IF AnyThreeInRow(board') \/ IsFull(board')
       THEN game_over'
       ELSE ~game_over' /\ current_player' = Other(current_player)]_vars

\* C7 as claimed: a move attempt on an occupied cell while the round is in
\* progress fails with an error, the board and the player to move unchanged.
C7_FailsWithIllegalMove ==
  [][last'.path \in {"return_occupied", "taken"} =>
       /\ IsError(last'.path)
       /\ board' = board
       /\ current_player' = current_player /\ current' = current]_vars

\* C7 as amended: a click (GUI) or a typed position (console) never changes a
\* cell that holds a mark and never raises; on an occupied cell the handler
\* returns (the console prompts again) with the board, the player to move and
\* the round's state unchanged.
C7_OccupiedCellIgnored ==
  [][last'.op \in {"on_cell_clicked", "prompt_move"} =>
       /\ \A i \in Cells : board[i] # " " => board'[i] = board[i]
       /\ ~IsError(last'.path)
       /\ last'.path \in {"return_occupied", "taken"} =>
            /\ board' = board
            /\ current_player' = current_player /\ game_over' = game_over
            /\ current' = current /\ pc' = pc]_vars

\* C7 witness: a click on an occupied cell was turned away during a round.
C7_Witness ==
  ~game_over /\ last.op = "on_cell_clicked" /\ last.path = "return_occupied"

\* C8: on every board a running program reaches, its win predicate and its
\* draw predicate are not both true.
C8_WinDrawExclusive ==
  /\ pc # "off" => ~(check_winner(board) # "None" /\ console_is_draw(board))
  /\ screen # "none" => ~(winner_of(board) # "None" /\ is_draw(board))

\* C9: for every board, the round-over test reports a draw exactly when the
\* board is full and no row, column or diagonal holds three equal marks, and
\* reports an ongoing round exactly when no such line exists and a cell is empty.
C9_EvaluateDrawOngoing ==
  ret.fn = "evaluate" =>
    \A o \in {ret.gui, ret.console} :
      /\ o.kind = "Draw" <=> (IsFull(board) /\ ~AnyThreeInRow(board))
      /\ o.kind = "Ongoing" <=> (~IsFull(board) /\ ~AnyThreeInRow(board))

\* The empty cells that complete a row, column or diagonal of p's marks.
CompletingMoves(b, p) ==
  {m \in Cells : b[m] = " " /\ \E l \in Lines :
                   m \in l /\ \A i \in l \ {m} : b[i] = p}

Least(S) == CHOOSE m \in S : \A k \in S : m <= k

\* C10: on every board without a finished line on which the CPU's player has
\* a move that completes a row, column or diagonal, the middle tier returns
\* the lowest-index such move.
C10_MediumTakesWin ==
  (ret.fn = "medium" /\ ~AnyThreeInRow(board)
     /\ CompletingMoves(board, ret.arg) # {}) =>
    \A o \in {ret.gui, ret.console} :
      o.raised = "None" /\ o.moves = {Least(CompletingMoves(board, ret.arg))}

\* C11: on every board without a finished line on which the CPU's player has
\* no move that completes a line but the opponent has one, the middle tier
\* returns the lowest-index cell that completes a line of the opponent.
C11_MediumBlocks ==
  (ret.fn = "medium" /\ ~AnyThreeInRow(board)
     /\ CompletingMoves(board, ret.arg) = {}
     /\ CompletingMoves(board, Other(ret.arg)) # {}) =>
    \A o \in {ret.gui, ret.console} :
      o.raised = "None" /\ o.moves = {Least(CompletingMoves(board, Other(ret.arg)))}

\* C12: a move chooser of either program, at every tier, returns with the
\* list it was given equal cell by cell to what it was on entry, and the cell
\* of every index it may return is still blank (the chooser does not place
\* its own move).
C12_BoardRestored ==
  ret.fn = "select" =>
    \A o \in {ret.gui, ret.console} :
      /\ o.board = board
      /\ \A m \in o.moves : o.board[m] = " "

\* C12 witness: the hardest tier of both programs has searched at least three
\* marks deep and has returned.
C12_Witness ==
  /\ ret.fn = "select" /\ ret.arg.tier = "Difficult"
  /\ ret.gui.depth >= 3 /\ ret.console.depth >= 3
  /\ ret.gui.board = board /\ ret.console.board = board

\* The reference value of C13 is computed on boards with at most this many
\* blank cells.
MaxValueBlanks == 6

\* The minimax value of board b for player me with turn to move: +1 when me
\* holds a line, -1 when the opponent does, 0 on a full board without a line,
\* else the maximum (me to move) or minimum over the legal moves.
RECURSIVE Value(_, _, _)
Value(b, turn, me) ==
  IF ThreeInRow(b, me) THEN 1
  ELSE IF ThreeInRow(b, Other(me)) THEN -1
  ELSE IF IsFull(b) THEN 0
  ELSE LET vals == {Value(place(b, m, turn), Other(turn), me) :
                      m \in {i \in Cells : b[i] = " "}}
       IN  IF turn = me
           THEN (IF 1 \in vals THEN 1 ELSE IF 0 \in vals THEN 0 ELSE -1)
           ELSE (IF -1 \in vals THEN -1 ELSE IF 0 \in vals THEN 0 ELSE 1)

\* The legal moves of me whose value is the value of the board.
BestMoves(b, me) ==
  {m \in Cells : b[m] = " " /\ Value(place(b, m, me), Other(me), me) = Value(b, me, me)}

\* C13: on every board without a finished line and with a blank cell, the
\* CPU's player to move, the hardest tier returns exactly one index: the
\* lowest legal move whose minimax value is the value of the board.
C13_OptimalLowestBest ==
  (ret.fn = "select" /\ ret.arg.tier = "Difficult"
     /\ Blanks(board) <= MaxValueBlanks
     /\ ~AnyThreeInRow(board) /\ ~IsFull(board)) =>
    \A o \in {ret.gui, ret.console} :
      o.raised = "None" /\ o.moves = {Least(BestMoves(board, ret.arg.cpu))}

\* How often cell i occurs in the list s.
Occurrences(s, i) == Cardinality({k \in DOMAIN s : s[k] = i})

\* The weight of C14 for a cell: 5 for the center, 3 for a corner, 1 for an edge.
Weight(i) == IF i = 4 THEN 5 ELSE IF i \in {0, 2, 6, 8} THEN 3 ELSE 1

\* C14: on every board with a blank cell on which neither player has a move
\* that completes a line, the middle tier, its noise branch not taken, draws
\* its move from a list in which every occupied cell occurs 0 times and every
\* blank cell occurs as often as its weight: center 5, corners 3, edges 1.
C14_WeightedPool ==
  (ret.fn = "fallback" /\ ~ret.arg.noise /\ ~IsFull(board)
     /\ ~AnyThreeInRow(board)
     /\ CompletingMoves(board, "X") = {} /\ CompletingMoves(board, "O") = {}) =>
    \A o \in {ret.gui, ret.console} :
      /\ o.reached
      /\ \A i \in Cells :
           Occurrences(o.pool, i) = IF board[i] = " " THEN Weight(i) ELSE 0

\* C15: in every state of a running program at most one player has three
\* marks on a row, column or diagonal.
C15_OneLineOwner ==
  (screen # "none" \/ pc # "off") =>
    ~(ThreeInRow(board, "X") /\ ThreeInRow(board, "O"))

\* C16 as claimed: on a board with no blank cell every tier of the move
\* chooser fails with a NoLegalMove error and returns no index.
C16_FailsWithNoLegalMove ==
  (ret.fn = "select" /\ IsFull(board)) =>
    \A o \in {ret.gui, ret.console} : o.raised = "NoLegalMove" /\ o.moves = {}

\* C16 as amended: on a board with no blank cell every tier of the move
\* chooser raises and returns no index; the exception is the IndexError of
\* random.choice on an empty list in the GUI and the RuntimeError of
\* _cpu_move_easy in the console; the list is left as it was.
C16_RaisesOnFullBoard ==
  (ret.fn = "select" /\ IsFull(board)) =>
    /\ ret.gui.raised = "IndexError" /\ ret.gui.moves = {}
    /\ ret.console.raised = "RuntimeError" /\ ret.console.moves = {}
    /\ ret.gui.board = board /\ ret.console.board = board

\* C16 witness: the hardest tier was called on a full board and raised.
C16_Witness ==
  /\ ret.fn = "select" /\ IsFull(board) /\ ret.arg.tier = "Difficult"
  /\ ret.gui.raised # "None" /\ ret.console.raised # "None"

\* C17: the search of the hardest tier returns on every board; every nested
\* call is entered on a list with exactly one blank cell fewer than its
\* caller's, and the deepest nesting is at most the number of blank cells of
\* the starting board, hence at most 9.
C17_SearchDepthBounded ==
  (ret.fn = "select" /\ ret.arg.tier = "Difficult") =>
    \A o \in {ret.gui, ret.console} :
      /\ o.shrinks
      /\ o.depth <= Blanks(board)
      /\ o.depth <= 9

\* C17 witness: the search from the empty board has nested 9 calls deep in
\* both programs and has returned a move.
C17_Witness ==
  /\ ret.fn = "select" /\ ret.arg.tier = "Difficult"
  /\ board = EmptyBoard
  /\ ret.gui.depth = 9 /\ ret.console.depth = 9
  /\ ret.gui.moves # {} /\ ret.console.moves # {}

\* C18: on every board with a blank cell, every tier of the move chooser of
\* either program returns without raising, and every index it may return is
\* in 0..8 and names a cell that is blank on that board.
C18_ReturnsBlankCell ==
  (ret.fn = "select" /\ ~IsFull(board)) =>
    \A o \in {ret.gui, ret.console} :
      /\ o.raised = "None"
      /\ o.moves # {}
      /\ \A m \in o.moves : m \in Cells /\ board[m] = " "

\* C18 witness: with O to move after X's first mark, the hardest tier of both
\* programs has returned an index.
C18_Witness ==
  /\ ret.fn = "select" /\ ret.arg.tier = "Difficult" /\ ret.arg.cpu = "O"
  /\ Blanks(board) = 8
  /\ ret.gui.moves # {} /\ ret.console.moves # {}

\* C19: in a GUI round against the CPU, every mark placed by a click on a cell
\* is an X on a blank cell and every mark placed by the CPU callback is an O
\* on a blank cell, however the clicks and the pending callback interleave.
C19_ClicksPlaceX ==
  [][(config_data.mode = "CPU" /\ last'.path = "placed"
        /\ last'.op \in {"on_cell_clicked", "_cpu_play"}) =>
       \E idx \in Cells :
         /\ board[idx] = " "
         /\ board' = [board EXCEPT
                        ![idx] = IF last'.op = "on_cell_clicked" THEN "X" ELSE "O"]]_vars

\* C20: a GUI round begins with an empty board and X to move, the first mark
\* of a round is an X placed by a click, and in a Player-vs-Player round no
\* mark is placed by the CPU callback.
C20_NoStaleReply ==
  [][/\ last'.path = "reset" => (board' = EmptyBoard /\ current_player' = "X")
     /\ (last'.path = "placed" /\ board = EmptyBoard) =>
          /\ last'.op = "on_cell_clicked"
          /\ \E idx \in Cells : board' = [EmptyBoard EXCEPT ![idx] = "X"]
     /\ (last'.path = "placed" /\ config_data.mode = "PVP") =>
          last'.op # "_cpu_play"]_vars

\* C21: the two programs implement the same game: on every board winner_of
\* and check_winner return the same winner, and on every board of play with a
\* blank cell and no finished line, the CPU's player to move, the hardest
\* tiers of the two programs return the same index.
C21_SameGame ==
  /\ ret.fn = "winner" => ret.gui = ret.console
  /\ (ret.fn = "select" /\ ret.arg.tier = "Difficult"
        /\ ~AnyThreeInRow(board) /\ ~IsFull(board)) =>
       /\ ret.gui.raised = "None" /\ ret.console.raised = "None"
       /\ ret.gui.moves = ret.console.moves

====
